---- MODULE Spec2Model ----
(***************************************************************************)
(* A model of the bytecode virtual machine of                              *)
(* examples/behavior/bytecode.rs: the operand stack (a VecDeque used from  *)
(* its front), the instruction stream (a consuming iterator over the words *)
(* given at construction) and VM::execute, one match arm at a time.        *)
(***************************************************************************)
EXTENDS Integers, Sequences, FiniteSets, TLC

\* ------------------------------------------------------------------ bounds
\* Streams given to VM::new hold at most MaxLen words.
MaxLen == 3
\* The embedder pushes at most MaxStack operands through VM::push.
MaxStack == 2
\* Literal data (operands, identifiers, amounts) ranges over 0..MaxVal.
MaxVal == 2

\* ------------------------------------------------------- opcode constants
INST_LITERAL == 100000000
INST_SET_HEALTH == 100000001
INST_SET_WISDOM == 100000002
INST_SET_AGILITY == 100000003
INST_PLAY_SOUND == 100000004
INST_SPAWN_PARTICLES == 100000005

\* The words VM::execute has a match arm for.
DefinedOpcodes ==
    { INST_LITERAL, INST_SET_HEALTH, INST_SET_WISDOM, INST_SET_AGILITY,
      INST_PLAY_SOUND, INST_SPAWN_PARTICLES }

SetOpcodes == { INST_SET_HEALTH, INST_SET_WISDOM, INST_SET_AGILITY }

\* Mnemonics that main's comments use in the worked example and that impl VM
\* gives no constant and no match arm.  They are given the next words of the
\* reserved range; any word outside DefinedOpcodes reaches the same arm.
GET_HEALTH == 100000006
GET_AGILITY == 100000007
GET_WISDOM == 100000008
ADD == 100000009
DIVIDE == 100000010

GetOpcodes == { GET_HEALTH, GET_AGILITY, GET_WISDOM }
NamedOnlyOpcodes == GetOpcodes \cup { ADD, DIVIDE }

Values == 0..MaxVal
Words == Values \cup DefinedOpcodes \cup NamedOnlyOpcodes
\* Every named-only opcode reaches the same arm of execute: streams of more than
\* one word are built with ADD standing for them.
LongWords == Values \cup DefinedOpcodes \cup { ADD }

\* The stream of main's comments, one word per opcode and per literal operand.
WorkedExample ==
    << INST_LITERAL, 0, INST_LITERAL, 0, GET_HEALTH, INST_LITERAL, 0,
       GET_AGILITY, INST_LITERAL, 0, GET_WISDOM, ADD, INST_LITERAL, 2,
       DIVIDE, ADD, INST_SET_HEALTH >>

RECURSIVE SeqsUpTo(_, _)
SeqsUpTo(S, n) ==
    IF n = 0 THEN { <<>> }
    ELSE LET shorter == SeqsUpTo(S, n - 1)
         IN  shorter \cup { Append(s, x) : s \in shorter, x \in S }

Streams ==
    SeqsUpTo(LongWords, MaxLen) \cup { << w >> : w \in Words } \cup { WorkedExample }

\* ------------------------------------------------------------------ state
VARIABLES
    stack,   \* VM.stack: VecDeque<u64>, index 1 is the front
    bytes,   \* the words VM.bytes iterates over
    pos,     \* how many words VM.bytes has yielded
    calls,   \* what the effectful arms have printed, in order
    panic,   \* NoPanic, or the payload of the panic that ended the run
    pc,      \* "ready", "running", "done" (stream exhausted) or "failed"
    start,   \* the stack when the run began
    last,    \* the last operation: its kind, its input and the state before
    \* examples/design/state.rs
    heroState,   \* Hero.state: Option<Box<dyn State>>, None or Some(state)
    heroLog,     \* one entry per call: the call, the state before, the line printed
    \* examples/design/observer.rs
    observers,   \* Subject.observers: Vec<Observer<E, S>>
    subjectLog,  \* one entry per call: the call, its observer, the calls notify made
    \* examples/sequence/double-buffer.rs
    scene,       \* Scene: its display and drawing FrameBuffers
    scenePanic,  \* NoPanic, or the payload of the panic that ended the program
    sceneLast,   \* the last call: its name, its arguments and the scene before
    \* examples/optimize/data-locality.rs
    particles,      \* ParticleSystem.particles: [Particle; MAX_PARTICLES]
    active_len,     \* ParticleSystem.active_len: usize
    particlePanic,  \* NoPanic, or the payload of the panic that ended the program
    particleLast,   \* the last call: its name, its index and the system before
    activated,      \* the particles activate was called on and deactivate has not been since
    \* examples/design/command.rs
    actor,         \* the GameActor the command moves: its x and y
    command,       \* MoveUnitCommand: the x and y it moves the actor by
    commandBuild,  \* whether the build checks arithmetic overflow
    commandPanic,  \* NoPanic, or the payload of the panic that ended the program
    commandLog,    \* one entry per call: the call and the actor before it
    \* examples/decouple/event-queue.rs
    buffer,      \* SimpleAudioQueue.buffer: [Option<PlayMessage>; MAX]
    pending,     \* SimpleAudioQueue.pending: usize
    audioPanic,  \* NoPanic, or the payload of the panic that ended the program
    audioLast,   \* the last call: its name, its volume and the queue before
    played       \* the messages play has queued since the last update

vars == << stack, bytes, pos, calls, panic, pc, start, last >>
heroVars == << heroState, heroLog >>
subjectVars == << observers, subjectLog >>
sceneVars == << scene, scenePanic, sceneLast >>
particleVars == << particles, active_len, particlePanic, particleLast, activated >>
commandVars == << actor, command, commandBuild, commandPanic, commandLog >>
audioVars == << buffer, pending, audioPanic, audioLast, played >>
allVars == << vars, heroVars, subjectVars, sceneVars, particleVars, commandVars, audioVars >>
\* What an operation of one example leaves alone: the state of the others.
vmRest == << heroVars, subjectVars, sceneVars, particleVars, commandVars, audioVars >>
heroRest == << vars, subjectVars, sceneVars, particleVars, commandVars, audioVars >>
subjectRest == << vars, heroVars, sceneVars, particleVars, commandVars, audioVars >>
sceneRest == << vars, heroVars, subjectVars, particleVars, commandVars, audioVars >>
particleRest == << vars, heroVars, subjectVars, sceneVars, commandVars, audioVars >>
commandRest == << vars, heroVars, subjectVars, sceneVars, particleVars, audioVars >>
audioRest == << vars, heroVars, subjectVars, sceneVars, particleVars, commandVars >>

\* ---------------------------------------------------------------- panics
\* A panic is its payload and the line of the expression that raised it.
NoPanic == [ payload |-> "none", line |-> 0 ]
\* Option::unwrap on None: bytes.next().unwrap() and pop().unwrap().
UnwrapNone(line) ==
    [ payload |-> "called Option::unwrap() on a None value", line |-> line ]
\* panic!() of the default arm.
ExplicitPanic(line) == [ payload |-> "explicit panic", line |-> line ]

\* ------------------------------------------------------------ VM::push/pop
\* Option<u64>: None is <<>>, Some(v) is <<v>>.
None == <<>>
Some(v) == << v >>

\* A slip: the value goes to the back of the deque, the far end from pop.
pushBack(s, value) == Append(s, value)

push(s, value) == << value >> \o s

\* A slip: an empty stack yields a default value instead of None.
popOrDefault(s) ==
    IF s = <<>> THEN [ ret |-> Some(0), stack |-> s ]
    ELSE [ ret |-> Some(Head(s)), stack |-> Tail(s) ]

pop(s) ==
    IF s = <<>> THEN [ ret |-> None, stack |-> s ]
    ELSE [ ret |-> Some(Head(s)), stack |-> Tail(s) ]

\* A slip: the iterator is peeked, the cursor stays where it was.
nextPeek(b, p) ==
    IF p < Len(b) THEN [ ret |-> Some(b[p + 1]), pos |-> p ]
    ELSE [ ret |-> None, pos |-> p ]

\* Iterator::next on VM.bytes.
next(b, p) ==
    IF p < Len(b) THEN [ ret |-> Some(b[p + 1]), pos |-> p + 1 ]
    ELSE [ ret |-> None, pos |-> p ]

\* --------------------------------------------------------------- VM::new
\* A slip: the stack is built with one zeroed slot instead of empty.
newZeroed(b) ==
    [ stack |-> << 0 >>, bytes |-> b, pos |-> 0, calls |-> <<>>, panic |-> NoPanic ]

\* The VM as a value: what execute reads and writes.
new(b) ==
    [ stack |-> <<>>, bytes |-> b, pos |-> 0, calls |-> <<>>, panic |-> NoPanic ]

\* ----------------------------------------------------------- VM::execute
\* println! of the SET arm: "set{}({}. {})", name, amount, wizard.
SetName(value) ==
    CASE value = INST_SET_HEALTH -> "Health"
      [] value = INST_SET_WISDOM -> "Wisdom"
      [] value = INST_SET_AGILITY -> "Agility"

PrintSet(value, amount, wizard) ==
    [ fn |-> "set" \o SetName(value), args |-> << amount, wizard >> ]

PrintPlaySound(sound) == [ fn |-> "playSound", args |-> << sound >> ]

PrintSpawnParticles(texture) == [ fn |-> "spawnParticles", args |-> << texture >> ]

\* A slip: the operand is read without being consumed (a peek instead of next).
ExecLiteralPeek(m) ==
    LET n == next(m.bytes, m.pos)
    IN  IF n.ret = None THEN [ m EXCEPT !.panic = UnwrapNone(57) ]
        ELSE [ m EXCEPT !.stack = push(m.stack, n.ret[1]) ]

\* A slip: unwrap_or_default in place of unwrap, a missing operand reads as 0.
ExecLiteralOrDefault(m) ==
    LET n == next(m.bytes, m.pos)
    IN  IF n.ret = None THEN [ m EXCEPT !.stack = push(m.stack, 0) ]
        ELSE [ m EXCEPT !.pos = n.pos, !.stack = push(m.stack, n.ret[1]) ]

\* INST_LITERAL: let next = self.bytes.next().unwrap(); self.push(next);
ExecLiteral(m) ==
    LET n == next(m.bytes, m.pos)
    IN  IF n.ret = None THEN [ m EXCEPT !.panic = UnwrapNone(57) ]
        ELSE [ m EXCEPT !.pos = n.pos, !.stack = push(m.stack, n.ret[1]) ]

\* A slip: the wizard is read with unwrap_or_default, a missing one reads as 0.
ExecSetOrDefault(m, value) ==
    LET first == pop(m.stack)
    IN  IF first.ret = None THEN [ m EXCEPT !.panic = UnwrapNone(62) ]
        ELSE LET second == pop(first.stack)
                 amount == first.ret[1]
                 wizard == IF second.ret = None THEN 0 ELSE second.ret[1]
             IN  [ m EXCEPT !.stack = second.stack,
                            !.calls = Append(@, PrintSet(value, amount, wizard)) ]

\* A slip: the depth is checked before anything is popped, so a failing SET
\* leaves its one operand on the stack.
ExecSetCheckedFirst(m, value) ==
    IF Len(m.stack) < 2 THEN [ m EXCEPT !.panic = UnwrapNone(62) ]
    ELSE [ m EXCEPT !.stack = Tail(Tail(@)),
                    !.calls = Append(@, PrintSet(value, m.stack[1], m.stack[2])) ]

\* INST_SET_*: (self.pop().unwrap(), self.pop().unwrap()), left to right, then
\* the println!.
ExecSet(m, value) ==
    LET first == pop(m.stack)
    IN  IF first.ret = None THEN [ m EXCEPT !.panic = UnwrapNone(62) ]
        ELSE LET second == pop(first.stack)
             IN  IF second.ret = None
                 THEN [ m EXCEPT !.stack = first.stack, !.panic = UnwrapNone(62) ]
                 ELSE LET amount == first.ret[1]
                          wizard == second.ret[1]
                      IN  [ m EXCEPT !.stack = second.stack,
                                     !.calls = Append(@, PrintSet(value, amount, wizard)) ]

\* A slip: the call is printed before the operand is known to exist.
ExecPlaySoundPrintFirst(m) ==
    LET p == pop(m.stack)
    IN  IF p.ret = None
        THEN [ m EXCEPT !.calls = Append(@, PrintPlaySound(0)),
                        !.panic = UnwrapNone(73) ]
        ELSE [ m EXCEPT !.stack = p.stack,
                        !.calls = Append(@, PrintPlaySound(p.ret[1])) ]

\* A slip: the call is recorded ahead of the earlier ones.
ExecPlaySoundPrepend(m) ==
    LET p == pop(m.stack)
    IN  IF p.ret = None THEN [ m EXCEPT !.panic = UnwrapNone(73) ]
        ELSE [ m EXCEPT !.stack = p.stack,
                        !.calls = << PrintPlaySound(p.ret[1]) >> \o @ ]

\* INST_PLAY_SOUND: let sound = self.pop().unwrap(); println!
ExecPlaySound(m) ==
    LET p == pop(m.stack)
    IN  IF p.ret = None THEN [ m EXCEPT !.panic = UnwrapNone(73) ]
        ELSE [ m EXCEPT !.stack = p.stack,
                        !.calls = Append(@, PrintPlaySound(p.ret[1])) ]

\* INST_SPAWN_PARTICLES: let texture = self.pop().unwrap(); println!
ExecSpawnParticles(m) ==
    LET p == pop(m.stack)
    IN  IF p.ret = None THEN [ m EXCEPT !.panic = UnwrapNone(78) ]
        ELSE [ m EXCEPT !.stack = p.stack,
                        !.calls = Append(@, PrintSpawnParticles(p.ret[1])) ]

\* A slip: a word with no arm is taken as literal data and pushed.
ExecDefaultPush(m, value) == [ m EXCEPT !.stack = push(m.stack, value) ]

\* _ => panic!()
ExecDefault(m, value) == [ m EXCEPT !.panic = ExplicitPanic(83) ]

execute(m, value) ==
    CASE value = INST_LITERAL -> ExecLiteral(m)
      [] value \in SetOpcodes -> ExecSet(m, value)
      [] value = INST_PLAY_SOUND -> ExecPlaySound(m)
      [] value = INST_SPAWN_PARTICLES -> ExecSpawnParticles(m)
      [] OTHER -> ExecDefault(m, value)

\* ========================================================================
\* examples/design/state.rs: Hero and its two states.
\* ========================================================================
\* fire() and notch() are called at most MaxHeroCalls times.
MaxHeroCalls == 6

\* impl State for StandingState: what is printed and the state returned.
StandingFire == [ out |-> "failed to fire (NO_ARROW_NOTCHED)", state |-> "Standing" ]
StandingNotch == [ out |-> "Notched...", state |-> "Notched" ]

\* A slip: the arrow is fired and the state returned is self.
NotchedFireStays == [ out |-> "Fired!", state |-> "Notched" ]

\* impl State for NotchedState.
NotchedFire == [ out |-> "Fired!", state |-> "Standing" ]
NotchedNotch == [ out |-> "failed to notch (ALREADY_NOTCHED)", state |-> "Notched" ]

\* Dynamic dispatch of State::fire and State::notch on the boxed state.
StateFire(state) == IF state = "Standing" THEN StandingFire ELSE NotchedFire
StateNotch(state) == IF state = "Standing" THEN StandingNotch ELSE NotchedNotch

\* Hero::new: state: Some(Box::new(StandingState)).
HeroNew == Some("Standing")

\* self.state = self.state.take().map(|state| state.fire(self)): the slot is
\* emptied by take() and filled again with the state the call returns.
HeroFire ==
    /\ Len(heroLog) < MaxHeroCalls
    /\ heroState' = IF heroState = None THEN None
                    ELSE Some(StateFire(heroState[1]).state)
    /\ heroLog' = Append(heroLog,
                         [ op |-> "fire", before |-> heroState,
                           out |-> IF heroState = None THEN None
                                   ELSE Some(StateFire(heroState[1]).out) ])
    /\ UNCHANGED heroRest

\* self.state = self.state.take().map(|state| state.notch(self)).
HeroNotch ==
    /\ Len(heroLog) < MaxHeroCalls
    /\ heroState' = IF heroState = None THEN None
                    ELSE Some(StateNotch(heroState[1]).state)
    /\ heroLog' = Append(heroLog,
                         [ op |-> "notch", before |-> heroState,
                           out |-> IF heroState = None THEN None
                                   ELSE Some(StateNotch(heroState[1]).out) ])
    /\ UNCHANGED heroRest

HeroInit ==
    /\ heroState = HeroNew
    /\ heroLog = <<>>

HeroNext == HeroFire \/ HeroNotch

\* ========================================================================
\* examples/design/observer.rs: Subject and the observers attached to it.
\* ========================================================================
\* attach(), detach() and notify() are called at most MaxSubjectCalls times.
MaxSubjectCalls == 5

\* The functions that are attached.  An observer is a fn pointer, and two fn
\* pointers are equal when they point to the same function.
Observers == { "observer", "other" }

\* What main notifies of: an event and the hero it came from.
Notifications == { << "Jumped", "aragorn" >>, << "Fired", "legolas" >> }

SubjectNew == << >>

attach(obs, observer) == Append(obs, observer)

detachFirst(obs, observer) ==
    IF \E i \in DOMAIN obs : obs[i] = observer
    THEN LET i == CHOOSE j \in DOMAIN obs :
                      /\ obs[j] = observer
                      /\ \A k \in 1..(j - 1) : obs[k] # observer
         IN  SubSeq(obs, 1, i - 1) \o SubSeq(obs, i + 1, Len(obs))
    ELSE obs

detach(obs, observer) == SelectSeq(obs, LAMBDA o : o # observer)

\* The calls notify makes, in order: one per element of the vector.
notify(obs, event, source) ==
    [ i \in DOMAIN obs |-> [ observer |-> obs[i], event |-> event, source |-> source ] ]

SubjectCalled(op, observer, invoked) ==
    Append(subjectLog, [ op |-> op, observer |-> observer, invoked |-> invoked ])

Attach(observer) ==
    /\ Len(subjectLog) < MaxSubjectCalls
    /\ observers' = attach(observers, observer)
    /\ subjectLog' = SubjectCalled("attach", Some(observer), << >>)
    /\ UNCHANGED subjectRest

Detach(observer) ==
    /\ Len(subjectLog) < MaxSubjectCalls
    /\ observers' = detach(observers, observer)
    /\ subjectLog' = SubjectCalled("detach", Some(observer), << >>)
    /\ UNCHANGED subjectRest

Notify(event, source) ==
    /\ Len(subjectLog) < MaxSubjectCalls
    /\ observers' = observers
    /\ subjectLog' = SubjectCalled("notify", None, notify(observers, event, source))
    /\ UNCHANGED subjectRest

SubjectInit ==
    /\ observers = SubjectNew
    /\ subjectLog = << >>

SubjectNext ==
    \/ \E observer \in Observers : Attach(observer)
    \/ \E observer \in Observers : Detach(observer)
    \/ \E n \in Notifications : Notify(n[1], n[2])

\* ========================================================================
\* examples/sequence/double-buffer.rs: Scene and its two FrameBuffers.
\* ========================================================================
\* A scene has at most MaxPixels cells.
MaxPixels == 4

Sizes ==
    { size \in (1..MaxPixels) \X (1..MaxPixels) : size[1] * size[2] <= MaxPixels }

\* T::default() and the pixel main draws.
DefaultPixel == "default"
Pixels == { DefaultPixel, "block" }

IndexOutOfBounds(line) == [ payload |-> "index out of bounds", line |-> line ]

\* pixels is the Vec<T>, index 1 being element 0.
FrameBufferNew(width, height) ==
    [ pixels |-> [ i \in 1..(width * height) |-> DefaultPixel ], width |-> width ]

FrameBufferDraw(fb, x, y, pixel) ==
    IF y * fb.width + x < Len(fb.pixels)
    THEN [ fb |-> [ fb EXCEPT !.pixels[y * fb.width + x + 1] = pixel ], panic |-> NoPanic ]
    ELSE [ fb |-> fb, panic |-> IndexOutOfBounds(86) ]

FrameBufferClear(fb) ==
    [ fb EXCEPT !.pixels = [ i \in DOMAIN fb.pixels |-> DefaultPixel ] ]

\* chunks(width): the rows, each of width cells but for a shorter last one.
FrameBufferPixels(fb) ==
    [ r \in 1..((Len(fb.pixels) + fb.width - 1) \div fb.width) |->
          SubSeq(fb.pixels, (r - 1) * fb.width + 1,
                 IF r * fb.width < Len(fb.pixels) THEN r * fb.width ELSE Len(fb.pixels)) ]

SceneNew(width, height) ==
    [ display |-> FrameBufferNew(width, height),
      drawing |-> FrameBufferNew(width, height) ]

SceneDrawDisplay(sc, x, y, pixel) ==
    [ scene |-> [ sc EXCEPT !.display = FrameBufferDraw(sc.display, x, y, pixel).fb ],
      panic |-> FrameBufferDraw(sc.display, x, y, pixel).panic ]

SceneDraw(sc, x, y, pixel) ==
    [ scene |-> [ sc EXCEPT !.drawing = FrameBufferDraw(sc.drawing, x, y, pixel).fb ],
      panic |-> FrameBufferDraw(sc.drawing, x, y, pixel).panic ]

SceneClear(sc) == [ sc EXCEPT !.drawing = FrameBufferClear(sc.drawing) ]

ScenePixels(sc) == FrameBufferPixels(sc.display)

\* A slip: the drawing buffer is copied to the display and kept.
SceneSwapCopy(sc) == [ display |-> sc.drawing, drawing |-> sc.drawing ]

SceneSwap(sc) == [ display |-> sc.drawing, drawing |-> sc.display ]

\* The call just made, what it was given, the scene it was made on, and the
\* call made before it.
SceneCalled(op, args) ==
    [ op |-> op, args |-> args, scene |-> scene, prior |-> sceneLast.op ]

\* x and y range one past the scene, so that draw is also given cells outside.
Draw(x, y, pixel) ==
    /\ scenePanic = NoPanic
    /\ scene' = SceneDraw(scene, x, y, pixel).scene
    /\ scenePanic' = SceneDraw(scene, x, y, pixel).panic
    /\ sceneLast' = SceneCalled("draw", << x, y, pixel >>)
    /\ UNCHANGED sceneRest

Clear ==
    /\ scenePanic = NoPanic
    /\ scene' = SceneClear(scene)
    /\ sceneLast' = SceneCalled("clear", << >>)
    /\ UNCHANGED << scenePanic, sceneRest >>

Swap ==
    /\ scenePanic = NoPanic
    /\ scene' = SceneSwap(scene)
    /\ sceneLast' = SceneCalled("swap", << >>)
    /\ UNCHANGED << scenePanic, sceneRest >>

SceneStarts(width, height) ==
    /\ scene = SceneNew(width, height)
    /\ scenePanic = NoPanic
    /\ sceneLast = [ op |-> "new", args |-> << width, height >>,
                     scene |-> SceneNew(width, height), prior |-> "none" ]

SceneInit == \E size \in Sizes : SceneStarts(size[1], size[2])

\* The smallest scene, for the specifications of the other examples.
SceneIdle == SceneStarts(1, 1)

SceneNext ==
    \/ \E x \in 0..scene.display.width, y \in 0..Len(ScenePixels(scene)),
          pixel \in Pixels : Draw(x, y, pixel)
    \/ Clear
    \/ Swap

\* ========================================================================
\* examples/optimize/data-locality.rs: ParticleSystem.
\* ========================================================================
\* The length of the particle array: 100_000 in the source, scaled down.
MAX_PARTICLES == 3

\* usize::MAX, what 0 - 1 wraps to when overflow checks are off.  It is written
\* as its two's complement; as an index it lies outside every array.
USIZE_MAX == -1

\* debug builds check arithmetic overflow, release builds wrap.
Builds == { "debug", "release" }

AssertFailed(message, line) == [ payload |-> message, line |-> line ]
SubtractOverflow(line) == [ payload |-> "attempt to subtract with overflow", line |-> line ]

\* Particle carries no data; each is named by the slot it was created in, so
\* that an exchange of two slots shows.  Index 1 is slot 0.
ParticleSystemNew ==
    [ particles |-> [ i \in 1..MAX_PARTICLES |-> i - 1 ], active_len |-> 0 ]

\* [T]::swap(a, b): panics when a or b is outside the slice.
swap(slice, a, b, line) ==
    IF /\ 0 <= a /\ a < Len(slice)
       /\ 0 <= b /\ b < Len(slice)
    THEN [ slice |-> [ slice EXCEPT ![a + 1] = slice[b + 1], ![b + 1] = slice[a + 1] ],
           panic |-> NoPanic ]
    ELSE [ slice |-> slice, panic |-> IndexOutOfBounds(line) ]

\* The number of lines update prints: one per active particle.
update(ps) == ps.active_len

activate(ps, index) ==
    IF ~(index >= ps.active_len)
        THEN [ ps |-> ps, panic |-> AssertFailed("Already active!", 68) ]
    ELSE IF swap(ps.particles, index, ps.active_len, 71).panic # NoPanic
        THEN [ ps |-> ps, panic |-> swap(ps.particles, index, ps.active_len, 71).panic ]
    ELSE [ ps |-> [ particles |-> swap(ps.particles, index, ps.active_len, 71).slice,
                    active_len |-> ps.active_len + 1 ],
           panic |-> NoPanic ]

\* active_len -= 1, then the swap with the decremented length.
deactivate(ps, index, build) ==
    IF ~(index <= ps.active_len)
        THEN [ ps |-> ps,
               panic |-> AssertFailed("Cannot deactivate inactive particle", 76) ]
    ELSE IF ps.active_len = 0 /\ build = "debug"
        THEN [ ps |-> ps, panic |-> SubtractOverflow(83) ]
    ELSE LET len == IF ps.active_len = 0 THEN USIZE_MAX ELSE ps.active_len - 1
             swapped == swap(ps.particles, index, len, 84)
         IN  [ ps |-> [ particles |-> swapped.slice, active_len |-> len ],
               panic |-> swapped.panic ]

\* The call just made, its index, and the system it was made on.
ParticleCalled(op, index, printed) ==
    [ op |-> op, index |-> index, printed |-> printed,
      particles |-> particles, active_len |-> active_len ]

Update ==
    /\ particlePanic = NoPanic
    /\ particleLast' = ParticleCalled("update", None, update([ particles |-> particles,
                                                               active_len |-> active_len ]))
    /\ UNCHANGED << particles, active_len, particlePanic, activated, particleRest >>

Activate(index) ==
    /\ particlePanic = NoPanic
    /\ LET r == activate([ particles |-> particles, active_len |-> active_len ], index)
       IN  /\ particles' = r.ps.particles
           /\ active_len' = r.ps.active_len
           /\ particlePanic' = r.panic
           /\ activated' = IF r.panic = NoPanic
                            THEN activated \cup { particles[index + 1] }
                            ELSE activated
    /\ particleLast' = ParticleCalled("activate", Some(index), 0)
    /\ UNCHANGED particleRest

Deactivate(index) ==
    /\ particlePanic = NoPanic
    /\ \E build \in Builds :
           LET r == deactivate([ particles |-> particles, active_len |-> active_len ],
                               index, build)
           IN  /\ particles' = r.ps.particles
               /\ active_len' = r.ps.active_len
               /\ particlePanic' = r.panic
               /\ activated' = IF r.panic = NoPanic
                                THEN activated \ { particles[index + 1] }
                                ELSE activated
    /\ particleLast' = ParticleCalled("deactivate", Some(index), 0)
    /\ UNCHANGED particleRest

ParticleInit ==
    /\ particles = ParticleSystemNew.particles
    /\ active_len = ParticleSystemNew.active_len
    /\ particlePanic = NoPanic
    /\ particleLast = [ op |-> "new", index |-> None, printed |-> 0,
                        particles |-> ParticleSystemNew.particles,
                        active_len |-> ParticleSystemNew.active_len ]
    /\ activated = { }

\* An index is any slot of the array or the first one past it.
ParticleNext ==
    \/ Update
    \/ \E index \in 0..MAX_PARTICLES : Activate(index)
    \/ \E index \in 0..MAX_PARTICLES : Deactivate(index)

\* ========================================================================
\* examples/design/command.rs: MoveUnitCommand and the actor it moves.
\* ========================================================================
\* An i32 has IntBits bits: 32 in the source, scaled down.
IntBits == 2
\* run() and undo() are called at most MaxCommandCalls times.
MaxCommandCalls == 4

I32_MIN == -(2 ^ (IntBits - 1))
I32_MAX == 2 ^ (IntBits - 1) - 1
I32 == I32_MIN..I32_MAX

\* What an i32 operation yields when overflow checks are off.
Wrap(n) == ((n - I32_MIN) % (2 ^ IntBits)) + I32_MIN

AddOverflow(line) == [ payload |-> "attempt to add with overflow", line |-> line ]

\* a += b and a -= b on i32: an overflow panics in a debug build and wraps in
\* a release build.
AddAssign(a, b, build, line) ==
    IF a + b \in I32 \/ build = "release"
    THEN [ value |-> Wrap(a + b), panic |-> NoPanic ]
    ELSE [ value |-> a, panic |-> AddOverflow(line) ]

SubAssign(a, b, build, line) ==
    IF a - b \in I32 \/ build = "release"
    THEN [ value |-> Wrap(a - b), panic |-> NoPanic ]
    ELSE [ value |-> a, panic |-> SubtractOverflow(line) ]

\* unit.x is written before unit.y is computed: a panic at y leaves x moved.
MoveUnitRun(unit, dx, dy, build) ==
    LET x == AddAssign(unit.x, dx, build, 104)
        y == AddAssign(unit.y, dy, build, 105)
    IN  IF x.panic # NoPanic THEN [ unit |-> unit, panic |-> x.panic ]
        ELSE [ unit |-> [ x |-> x.value, y |-> y.value ], panic |-> y.panic ]

MoveUnitUndoXOnly(unit, dx, dy, build) ==
    LET x == SubAssign(unit.x, dx, build, 111)
    IN  [ unit |-> [ x |-> x.value, y |-> unit.y ], panic |-> x.panic ]

MoveUnitUndo(unit, dx, dy, build) ==
    LET x == SubAssign(unit.x, dx, build, 111)
        y == SubAssign(unit.y, dy, build, 112)
    IN  IF x.panic # NoPanic THEN [ unit |-> unit, panic |-> x.panic ]
        ELSE [ unit |-> [ x |-> x.value, y |-> y.value ], panic |-> y.panic ]

\* The call just made and the actor it was made on.
CommandCalled(op) == Append(commandLog, [ op |-> op, unit |-> actor ])

CommandRun ==
    /\ commandPanic = NoPanic
    /\ Len(commandLog) < MaxCommandCalls
    /\ actor' = MoveUnitRun(actor, command.x, command.y, commandBuild).unit
    /\ commandPanic' = MoveUnitRun(actor, command.x, command.y, commandBuild).panic
    /\ commandLog' = CommandCalled("run")
    /\ UNCHANGED << command, commandBuild, commandRest >>

CommandUndo ==
    /\ commandPanic = NoPanic
    /\ Len(commandLog) < MaxCommandCalls
    /\ actor' = MoveUnitUndo(actor, command.x, command.y, commandBuild).unit
    /\ commandPanic' = MoveUnitUndo(actor, command.x, command.y, commandBuild).panic
    /\ commandLog' = CommandCalled("undo")
    /\ UNCHANGED << command, commandBuild, commandRest >>

CommandStarts(unit, dx, dy, build) ==
    /\ actor = unit
    /\ command = [ x |-> dx, y |-> dy ]
    /\ commandBuild = build
    /\ commandPanic = NoPanic
    /\ commandLog = << >>

\* Any actor, any move, either build.
CommandInit ==
    \E x \in I32, y \in I32, dx \in I32, dy \in I32, build \in Builds :
        CommandStarts([ x |-> x, y |-> y ], dx, dy, build)

\* The actor of main before any command, for the specifications of the others.
CommandIdle == CommandStarts([ x |-> 0, y |-> 0 ], 0, 0, "debug")

CommandNext == CommandRun \/ CommandUndo

\* ========================================================================
\* examples/decouple/event-queue.rs: SimpleAudioQueue.
\* ========================================================================
\* The const parameter of SimpleAudioQueue<MAX>: 16 in main, scaled down.
MAX == 2

\* The volumes main plays at.
Volumes == { "0.1", "0.2", "0.3" }

PlayMessage(id, volume) == [ id |-> id, volume |-> volume ]

\* buffer is the array, index 1 being slot 0.
SimpleAudioQueueNew == [ buffer |-> [ i \in 1..MAX |-> None ], pending |-> 0 ]

\* A slip: the message is always written to slot 0.
SimpleAudioQueuePlayAtFront(q, id, volume) ==
    IF ~(q.pending < MAX)
    THEN [ q |-> q, panic |-> AssertFailed("assertion failed: self.pending < MAX", 46) ]
    ELSE [ q |-> [ buffer |-> [ q.buffer EXCEPT ![1] = Some(PlayMessage(id, volume)) ],
                   pending |-> q.pending + 1 ],
           panic |-> NoPanic ]

SimpleAudioQueuePlay(q, id, volume) ==
    IF ~(q.pending < MAX)
    THEN [ q |-> q, panic |-> AssertFailed("assertion failed: self.pending < MAX", 46) ]
    ELSE [ q |-> [ buffer |-> [ q.buffer EXCEPT ![q.pending + 1] =
                                    Some(PlayMessage(id, volume)) ],
                   pending |-> q.pending + 1 ],
           panic |-> NoPanic ]

SimpleAudioQueueUpdate(q) == [ q EXCEPT !.pending = 0 ]

\* The call just made, its volume, and the queue it was made on.
AudioCalled(op, volume) ==
    [ op |-> op, volume |-> volume, buffer |-> buffer, pending |-> pending ]

Play(volume) ==
    /\ audioPanic = NoPanic
    /\ LET r == SimpleAudioQueuePlay([ buffer |-> buffer, pending |-> pending ],
                                     "SoundId", volume)
       IN  /\ buffer' = r.q.buffer
           /\ pending' = r.q.pending
           /\ audioPanic' = r.panic
           /\ played' = IF r.panic = NoPanic
                        THEN Append(played, PlayMessage("SoundId", volume))
                        ELSE played
    /\ audioLast' = AudioCalled("play", Some(volume))
    /\ UNCHANGED audioRest

UpdateQueue ==
    /\ audioPanic = NoPanic
    /\ buffer' = SimpleAudioQueueUpdate([ buffer |-> buffer, pending |-> pending ]).buffer
    /\ pending' = SimpleAudioQueueUpdate([ buffer |-> buffer, pending |-> pending ]).pending
    /\ played' = << >>
    /\ audioLast' = AudioCalled("update", None)
    /\ UNCHANGED << audioPanic, audioRest >>

AudioInit ==
    /\ buffer = SimpleAudioQueueNew.buffer
    /\ pending = SimpleAudioQueueNew.pending
    /\ audioPanic = NoPanic
    /\ played = << >>
    /\ audioLast = [ op |-> "new", volume |-> None,
                     buffer |-> SimpleAudioQueueNew.buffer,
                     pending |-> SimpleAudioQueueNew.pending ]

AudioNext ==
    \/ \E volume \in Volumes : Play(volume)
    \/ UpdateQueue

\* ========================================================================
\* examples/behavior/bytecode.rs: the operations of the VM.
\* ========================================================================
\* What the last operation was given (word: None or Some) and returned (ret), and
\* the stack, the collaborator calls and the cursor it started from.
Record(kind, word, ret) ==
    [ kind |-> kind, word |-> word, ret |-> ret,
      stack |-> stack, calls |-> calls, pos |-> pos ]

Init ==
    /\ bytes \in Streams
    /\ stack = new(bytes).stack
    /\ pos = new(bytes).pos
    /\ calls = new(bytes).calls
    /\ panic = new(bytes).panic
    /\ pc = "ready"
    /\ start = <<>>
    /\ last = [ kind |-> "new", word |-> None, ret |-> None,
                stack |-> <<>>, calls |-> <<>>, pos |-> 0 ]
    /\ HeroInit
    /\ SubjectInit
    /\ SceneIdle
    /\ ParticleInit
    /\ CommandIdle
    /\ AudioInit

\* The embedder loads an operand before the run.
Push(value) ==
    /\ pc = "ready"
    /\ Len(stack) < MaxStack
    /\ stack' = push(stack, value)
    /\ last' = Record("push", Some(value), None)
    /\ UNCHANGED << bytes, pos, calls, panic, pc, start >>
    /\ UNCHANGED vmRest

\* The embedder probes the stack before or after the run.
Pop ==
    /\ pc \in { "ready", "done" }
    /\ stack' = pop(stack).stack
    /\ last' = Record("pop", None, pop(stack).ret)
    /\ UNCHANGED << bytes, pos, calls, panic, pc, start >>
    /\ UNCHANGED vmRest

\* run(): the stream is exhausted, the run ends successfully.
Halt ==
    /\ pc \in { "ready", "running" }
    /\ next(bytes, pos).ret = None
    /\ pc' = "done"
    /\ start' = IF pc = "ready" THEN stack ELSE start
    /\ last' = Record("halt", None, None)
    /\ UNCHANGED << stack, bytes, pos, calls, panic >>
    /\ UNCHANGED vmRest

\* run(): the next word is fetched and handed to execute; a panic ends the run.
Dispatch ==
    /\ pc \in { "ready", "running" }
    /\ next(bytes, pos).ret # None
    /\ LET n == next(bytes, pos)
           value == n.ret[1]
           m == execute([ stack |-> stack, bytes |-> bytes, pos |-> n.pos,
                          calls |-> calls, panic |-> NoPanic ], value)
       IN  /\ stack' = m.stack
           /\ pos' = m.pos
           /\ calls' = m.calls
           /\ panic' = m.panic
           /\ pc' = IF m.panic = NoPanic THEN "running" ELSE "failed"
           /\ last' = Record("execute", Some(value), None)
    /\ start' = IF pc = "ready" THEN stack ELSE start
    /\ UNCHANGED bytes
    /\ UNCHANGED vmRest

Next ==
    \/ \E value \in Values : Push(value)
    \/ Pop
    \/ Halt
    \/ Dispatch

\* ========================================================================
\* The specifications: one per example, the other examples standing still.
\* ========================================================================
\* The VM before anything is given to it, for the specifications of the others.
VmIdle ==
    /\ bytes = <<>>
    /\ stack = <<>>
    /\ pos = 0
    /\ calls = <<>>
    /\ panic = NoPanic
    /\ pc = "ready"
    /\ start = <<>>
    /\ last = [ kind |-> "new", word |-> None, ret |-> None,
                stack |-> <<>>, calls |-> <<>>, pos |-> 0 ]

Spec == Init /\ [][Next]_allVars

\* run() on a freshly constructed VM.  It is one synchronous loop: it keeps
\* taking its next step until the stream is exhausted or an instruction panics.
Run == Halt \/ Dispatch

LiveSpec == Init /\ [][Run]_allVars /\ WF_allVars(Run)

HeroSpecInit == VmIdle /\ HeroInit /\ SubjectInit /\ SceneIdle /\ ParticleInit /\ CommandIdle /\ AudioInit

HeroSpec == HeroSpecInit /\ [][HeroNext]_allVars

SubjectSpecInit == VmIdle /\ HeroInit /\ SubjectInit /\ SceneIdle /\ ParticleInit /\ CommandIdle /\ AudioInit

SubjectSpec == SubjectSpecInit /\ [][SubjectNext]_allVars

SceneSpecInit == VmIdle /\ HeroInit /\ SubjectInit /\ SceneInit /\ ParticleInit /\ CommandIdle /\ AudioInit

SceneSpec == SceneSpecInit /\ [][SceneNext]_allVars

ParticleSpecInit == VmIdle /\ HeroInit /\ SubjectInit /\ SceneIdle /\ ParticleInit /\ CommandIdle /\ AudioInit

ParticleSpec == ParticleSpecInit /\ [][ParticleNext]_allVars

CommandSpecInit == VmIdle /\ HeroInit /\ SubjectInit /\ SceneIdle /\ ParticleInit /\ CommandInit /\ AudioInit

CommandSpec == CommandSpecInit /\ [][CommandNext]_allVars

AudioSpecInit == VmIdle /\ HeroInit /\ SubjectInit /\ SceneIdle /\ ParticleInit /\ CommandIdle /\ AudioInit

AudioSpec == AudioSpecInit /\ [][AudioNext]_allVars





\* ------------------------------------------------------ names of the claims
\* The failures of the specification, as the panics execute raises.
StackUnderflow == { UnwrapNone(62), UnwrapNone(73), UnwrapNone(78) }
TruncatedStream == UnwrapNone(57)
UnknownOpcode == ExplicitPanic(83)

\* execute has just run on word w.
Executed(w) == last.kind = "execute" /\ last.word = Some(w)
\* The run has just returned: by exhausting the stream, or by a panic.
Returned ==
    \/ pc = "done" /\ last.kind = "halt"
    \/ pc = "failed" /\ last.kind = "execute"
\* The operands the specification's table has each opcode pop.
Pops(w) ==
    CASE w \in SetOpcodes -> 2
      [] w \in { INST_PLAY_SOUND, INST_SPAWN_PARTICLES } -> 1
      [] w \in GetOpcodes -> 1
      [] w \in { ADD, DIVIDE } -> 2
      [] OTHER -> 0

\* ---------------------------------------------------------------------- C1
\* C1: the worked example, run from an empty stack, returns successfully with
\* an empty stack after exactly one collaborator call, set health of target 0
\* to 54.
C1_WorkedExampleSetsHealth ==
    (bytes = WorkedExample /\ start = <<>> /\ Returned) =>
        /\ pc = "done"
        /\ stack = <<>>
        /\ Len(calls) = 1
        /\ calls[1].fn = "setHealth"
        /\ calls[1].args = << 0, 54 >>

\* ---------------------------------------------------------------------- C2
\* C2: the stream [LITERAL, v], run on a freshly constructed VM, returns
\* successfully with the stack [v] and no collaborator call, for every word v.
C2_LiteralPushesOperand ==
    (Len(bytes) = 2 /\ bytes[1] = INST_LITERAL /\ start = <<>> /\ pc # "ready") =>
        /\ pc # "failed"
        /\ calls = <<>>
        /\ last.kind \in { "execute", "halt" } => stack = << bytes[2] >>
        /\ pos = 2

C2_Witness ==
    /\ bytes = << INST_LITERAL, INST_SET_HEALTH >>
    /\ start = <<>>
    /\ Returned
    /\ pc = "done"
    /\ stack = << INST_SET_HEALTH >>

\* ---------------------------------------------------------------------- C3
\* C3: an opcode that pops n operands (SET_* 2, PLAY_SOUND and
\* SPAWN_PARTICLES 1), executed on a stack of depth below n, fails with
\* StackUnderflow and makes no collaborator call.
C3_UnderflowFailsWithoutCall ==
    \A w \in SetOpcodes \cup { INST_PLAY_SOUND, INST_SPAWN_PARTICLES } :
        (Executed(w) /\ Len(last.stack) < Pops(w)) =>
            /\ pc = "failed"
            /\ panic \in StackUnderflow
            /\ calls = last.calls

C3_Witness ==
    /\ Executed(INST_SET_WISDOM)
    /\ Len(last.stack) = 1
    /\ pc = "failed"
    /\ panic = UnwrapNone(62)
    /\ last.calls # <<>>

C5_UnknownOpcodeFails ==
    (last.kind = "execute" /\ last.word[1] \notin DefinedOpcodes) =>
        /\ pc = "failed"
        /\ panic = UnknownOpcode
        /\ stack = last.stack
        /\ calls = last.calls
        /\ pos = last.pos + 1

C5_Witness ==
    /\ last.kind = "execute"
    /\ last.word[1] \in Values
    /\ last.stack # <<>>
    /\ pc = "failed"
    /\ panic = UnknownOpcode

\* ---------------------------------------------------------------------- C6
\* C6: SET_<ATTR> on a stack [..., target, amount] pops the amount, then the
\* target, pushes nothing, and calls set_<attr>(target, amount): the target is
\* the first argument and the amount the second.
C6_SetCallsTargetThenAmount ==
    \A w \in SetOpcodes :
        (Executed(w) /\ Len(last.stack) >= 2) =>
            LET amount == last.stack[1]
                target == last.stack[2]
            IN  /\ pc # "failed"
                /\ stack = Tail(Tail(last.stack))
                /\ calls = Append(last.calls,
                                  [ fn |-> "set" \o SetName(w),
                                    args |-> << target, amount >> ])

\* ---------------------------------------------------------------------- C7
\* C7: ADD on a stack [..., a, b] replaces a and b by a + b and leaves the rest
\* of the stack as it was (so that a, b in either order give the same stack).
C7_AddReplacesTopTwoBySum ==
    (Executed(ADD) /\ Len(last.stack) >= 2) =>
        LET b == last.stack[1]
            a == last.stack[2]
        IN  /\ pc # "failed"
            /\ stack = << a + b >> \o Tail(Tail(last.stack))
            /\ stack = << b + a >> \o Tail(Tail(last.stack))

\* ---------------------------------------------------------------------- C8
\* C8: DIVIDE on a stack [..., a, b] replaces a and b by a / b when b is not
\* zero; when b is zero the run fails with ArithmeticError, a failure of its
\* own, and no result is pushed.
C8_DivideReplacesTopTwoByQuotient ==
    (Executed(DIVIDE) /\ Len(last.stack) >= 2) =>
        LET b == last.stack[1]
            a == last.stack[2]
        IN  IF b # 0
            THEN /\ pc # "failed"
                 /\ stack = << a \div b >> \o Tail(Tail(last.stack))
            ELSE /\ pc = "failed"
                 /\ panic \notin StackUnderflow \cup { TruncatedStream, UnknownOpcode }
                 /\ Len(stack) <= Len(last.stack)

\* ---------------------------------------------------------------------- C9
\* C9: GET_<ATTR> pops the target, calls the getter of that attribute once with
\* that target, and pushes what it returns: the depth of the stack is unchanged.
C9_GetPopsTargetPushesAttribute ==
    \A w \in GetOpcodes :
        (Executed(w) /\ Len(last.stack) >= 1) =>
            /\ pc # "failed"
            /\ Len(stack) = Len(last.stack)
            /\ Tail(stack) = Tail(last.stack)
            /\ Len(calls) = Len(last.calls) + 1
            /\ calls[Len(calls)].args = << last.stack[1] >>

\* --------------------------------------------------------------------- C10
\* C10: construction never fails and leaves an empty stack; the run of the
\* empty stream returns successfully with an empty stack and no collaborator
\* call.
C10_NewIsEmptyAndEmptyStreamSucceeds ==
    /\ last.kind = "new" =>
           /\ stack = <<>>
           /\ panic = NoPanic
           /\ pos = 0
           /\ calls = <<>>
           /\ pc = "ready"
    /\ (bytes = <<>> /\ start = <<>> /\ pc # "ready") =>
           /\ pc = "done"
           /\ calls = <<>>
           /\ pos = 0
           /\ last.kind = "halt" => stack = <<>>

C10_Witness ==
    /\ bytes = <<>>
    /\ start = <<>>
    /\ Returned
    /\ pc = "done"
    /\ stack = <<>>
    /\ calls = <<>>

\* --------------------------------------------------------------------- C11
\* C11: pop() on an empty stack returns None and leaves the stack, the cursor
\* and everything else of the VM as they were.
C11_PopOnEmptyReturnsNone ==
    (last.kind = "pop" /\ last.stack = <<>>) =>
        /\ last.ret = None
        /\ stack = <<>>
        /\ pos = last.pos
        /\ calls = last.calls
        /\ panic = NoPanic
        /\ pc \in { "ready", "done" }

C11_Witness ==
    /\ last.kind = "pop"
    /\ last.stack = <<>>
    /\ last.ret = None
    /\ pc = "done"
    /\ pos = 2

\* --------------------------------------------------------------------- C12
\* C12: a failure ends the run: the failing instruction is the last thing that
\* happened, only its opcode word was fetched, it made no collaborator call,
\* and the calls of the instructions before it are all still there.
C12_FailureIsTerminal ==
    pc = "failed" =>
        /\ last.kind = "execute"
        /\ panic \in StackUnderflow \cup { TruncatedStream, UnknownOpcode }
        /\ calls = last.calls
        /\ pos = last.pos + 1
        /\ pos <= Len(bytes)

C12_Witness ==
    /\ pc = "failed"
    /\ last.kind = "execute"
    /\ Len(calls) = 2
    /\ pos = 3

\* --------------------------------------------------------------------- C13
\* C13: a SET_<ATTR>, PLAY_SOUND or SPAWN_PARTICLES that succeeds adds exactly
\* one collaborator call, after the earlier ones, carrying the operands it
\* popped, and pushes nothing; LITERAL adds none.
C13_OneCallPerEffectInOrder ==
    (last.kind = "execute" /\ pc # "failed") =>
        LET w == last.word[1]
            top == last.stack[1]
        IN  /\ w \in { INST_PLAY_SOUND, INST_SPAWN_PARTICLES } =>
                   /\ stack = Tail(last.stack)
                   /\ calls = Append(last.calls,
                                     [ fn |-> IF w = INST_PLAY_SOUND
                                              THEN "playSound" ELSE "spawnParticles",
                                       args |-> << top >> ])
            /\ w \in SetOpcodes =>
                   /\ stack = Tail(Tail(last.stack))
                   /\ Len(calls) = Len(last.calls) + 1
                   /\ SubSeq(calls, 1, Len(last.calls)) = last.calls
                   /\ calls[Len(calls)].fn = "set" \o SetName(w)
                   /\ calls[Len(calls)].args \in
                          { << top, last.stack[2] >>, << last.stack[2], top >> }
            /\ w = INST_LITERAL => calls = last.calls

C13_Witness ==
    /\ last.kind = "execute"
    /\ pc = "running"
    /\ last.word = Some(INST_SPAWN_PARTICLES)
    /\ Len(calls) = 2
    /\ calls[1].fn = "playSound"
    /\ calls[1].args # calls[2].args

\* --------------------------------------------------------------------- C15
\* C15: the run of a stream of n words returns, successfully or by a failure;
\* every instruction moves the cursor forward, never past the end of the
\* stream, so that no word is fetched twice and at most n instructions run.
C15_RunReturns ==
    /\ <>(pc \in { "done", "failed" })
    /\ [][last'.kind = "execute" /\ pc \in { "ready", "running" } =>
            pos < pos' /\ pos' <= Len(bytes)]_vars
    /\ [](pc = "done" => pos = Len(bytes))

C15_Witness ==
    /\ Returned
    /\ pc = "done"
    /\ Len(bytes) = 3
    /\ pos = 3
    /\ last.pos = 3
    /\ calls # <<>>

\* --------------------------------------------------------------------- C16
\* C16, as claimed: opcodes are the words from 100,000,000 up, and a word below
\* 100,000,000 met in opcode position is literal data: it is pushed onto the
\* stack, without a LITERAL before it, and the run goes on.
C16_SmallWordsArePushed ==
    /\ \A w \in DefinedOpcodes : w >= INST_LITERAL
    /\ (last.kind = "execute" /\ last.word[1] < INST_LITERAL) =>
           /\ pc # "failed"
           /\ stack = push(last.stack, last.word[1])

\* C16, amended: the opcodes are the six words 100,000,000 .. 100,000,005; a
\* word below 100,000,000 met in opcode position is not pushed: it fails the
\* run as an unknown opcode and leaves the stack as it was.  A word reaches the
\* stack during the run only as the operand that follows a LITERAL opcode.
C16_SmallWordsFailOnlyLiteralPushes ==
    /\ DefinedOpcodes = INST_LITERAL .. INST_SPAWN_PARTICLES
    /\ \A w \in DefinedOpcodes : w >= INST_LITERAL
    /\ (last.kind = "execute" /\ last.word[1] < INST_LITERAL) =>
           /\ pc = "failed"
           /\ panic = UnknownOpcode
           /\ stack = last.stack
    /\ (last.kind = "execute" /\ Len(stack) > Len(last.stack)) =>
           /\ last.word = Some(INST_LITERAL)
           /\ stack = push(last.stack, bytes[last.pos + 2])
           /\ pos = last.pos + 2

C16_Witness ==
    /\ last.kind = "execute"
    /\ last.word = Some(2)
    /\ last.pos = 2
    /\ pc = "failed"
    /\ stack = << 1 >>
    /\ bytes = << INST_LITERAL, 1, 2 >>

\* --------------------------------------------------------------------- C17
\* C17: the hero is always in one of its two states, Standing at first; fire
\* succeeds exactly when an arrow is notched and leaves the hero Standing,
\* notch succeeds exactly when none is and leaves the hero Notched, a rejected
\* call leaves the state as it was; so the successful calls alternate, notch
\* first.
HeroSucceeded(e) == e.out \in { Some("Notched..."), Some("Fired!") }

C17_HeroNotchAndFireAlternate ==
    /\ heroState \in { Some("Standing"), Some("Notched") }
    /\ \A i \in 1..Len(heroLog) :
           LET e == heroLog[i]
               after == IF i = Len(heroLog) THEN heroState ELSE heroLog[i + 1].before
           IN  /\ e.before \in { Some("Standing"), Some("Notched") }
               /\ i = 1 => e.before = Some("Standing")
               /\ e.op = "fire" =>
                      /\ HeroSucceeded(e) <=> e.before = Some("Notched")
                      /\ HeroSucceeded(e) => e.out = Some("Fired!") /\ after = Some("Standing")
               /\ e.op = "notch" =>
                      /\ HeroSucceeded(e) <=> e.before = Some("Standing")
                      /\ HeroSucceeded(e) => e.out = Some("Notched...") /\ after = Some("Notched")
               /\ ~HeroSucceeded(e) => after = e.before
    /\ LET done == SelectSeq(heroLog, HeroSucceeded)
       IN  \A i \in 1..Len(done) :
               done[i].op = IF i % 2 = 1 THEN "notch" ELSE "fire"

\* The calls of main: notch, fire, fire (rejected), notch, notch (rejected), fire.
C17_Witness ==
    /\ Len(heroLog) = 6
    /\ [ i \in 1..6 |-> heroLog[i].op ] =
           << "notch", "fire", "fire", "notch", "notch", "fire" >>
    /\ Len(SelectSeq(heroLog, HeroSucceeded)) = 4
    /\ heroState = Some("Standing")

\* --------------------------------------------------------------------- C18
\* C18: once detach(o) has been called, no notify invokes o until o is attached
\* again, however often o had been attached before; every other attached
\* observer is still invoked by notify, once for each time it was attached.
\* How often o was attached in the first n calls since it was last detached.
RECURSIVE Attachments(_, _, _)
Attachments(log, n, o) ==
    IF n = 0 THEN 0
    ELSE IF log[n].op = "detach" /\ log[n].observer = Some(o) THEN 0
    ELSE Attachments(log, n - 1, o)
             + (IF log[n].op = "attach" /\ log[n].observer = Some(o) THEN 1 ELSE 0)

Invocations(invoked, o) ==
    Cardinality({ i \in DOMAIN invoked : invoked[i].observer = o })

C18_DetachedObserverIsNotNotified ==
    \A n \in DOMAIN subjectLog :
        subjectLog[n].op = "notify" =>
            \A o \in Observers :
                /\ Attachments(subjectLog, n - 1, o) = 0 =>
                       Invocations(subjectLog[n].invoked, o) = 0
                /\ Invocations(subjectLog[n].invoked, o) =
                       Attachments(subjectLog, n - 1, o)

\* observer is attached twice around other, detached once, and notify then
\* invokes other alone.
C18_Witness ==
    /\ Len(subjectLog) = 5
    /\ [ i \in 1..4 |-> << subjectLog[i].op, subjectLog[i].observer >> ] =
           << << "attach", Some("observer") >>, << "attach", Some("other") >>,
              << "attach", Some("observer") >>, << "detach", Some("observer") >> >>
    /\ subjectLog[5].op = "notify"
    /\ subjectLog[5].invoked =
           << [ observer |-> "other", event |-> "Jumped", source |-> "aragorn" ] >>

\* --------------------------------------------------------------------- C19
\* C19: draw and clear change the drawing buffer only, so pixels() returns after
\* them what it returned before; swap makes pixels() return exactly what the
\* drawing buffer held when it was called.
C19_OnlySwapChangesTheDisplayedFrame ==
    /\ sceneLast.op \in { "draw", "clear" } =>
           /\ ScenePixels(scene) = ScenePixels(sceneLast.scene)
           /\ scene.display = sceneLast.scene.display
    /\ sceneLast.op = "swap" =>
           ScenePixels(scene) = FrameBufferPixels(sceneLast.scene.drawing)

\* A pixel was drawn at (1, 1) of a 2 x 2 scene whose displayed frame was blank,
\* and the swap that followed is showing it.
C19_Witness ==
    /\ sceneLast.op = "swap"
    /\ ScenePixels(sceneLast.scene) =
           << << DefaultPixel, DefaultPixel >>, << DefaultPixel, DefaultPixel >> >>
    /\ ScenePixels(scene) =
           << << DefaultPixel, DefaultPixel >>, << DefaultPixel, "block" >> >>

\* --------------------------------------------------------------------- C20
\* C20: deactivate(index) rejects every inactive particle: whenever index is at
\* least active_len the call fails the "Cannot deactivate inactive particle"
\* assertion and leaves active_len and the array as they were; active_len goes
\* down only when the index is below it.
C20_DeactivateRejectsInactive ==
    particleLast.op = "deactivate" =>
        /\ particleLast.index[1] >= particleLast.active_len =>
               /\ particlePanic = AssertFailed("Cannot deactivate inactive particle", 76)
               /\ active_len = particleLast.active_len
               /\ particles = particleLast.particles
        /\ active_len < particleLast.active_len =>
               particleLast.index[1] < particleLast.active_len

\* After activate(0) one particle is active; deactivate(1) names the first
\* inactive slot, is not rejected, and leaves no particle active.
C20_Witness ==
    /\ particleLast.op = "deactivate"
    /\ particleLast.index = Some(1)
    /\ particleLast.active_len = 1
    /\ particlePanic = NoPanic
    /\ active_len = 0
    /\ particles # particleLast.particles

\* --------------------------------------------------------------------- C21
\* C21: MoveUnitCommand is reversible: k calls of run() followed by k calls of
\* undo(), all of which return, leave the actor's x and y as they were before
\* the first run, for every position and every move; k = 1 is run() then undo().
ActorAfter(n) == IF n = Len(commandLog) THEN actor ELSE commandLog[n + 1].unit

C21_RunsThenUndosRestoreTheActor ==
    \A i \in DOMAIN commandLog, k \in DOMAIN commandLog :
        ( /\ i + 2 * k - 1 <= Len(commandLog)
          /\ \A j \in i..(i + k - 1) : commandLog[j].op = "run"
          /\ \A j \in (i + k)..(i + 2 * k - 1) : commandLog[j].op = "undo"
          /\ i + 2 * k - 1 = Len(commandLog) => commandPanic = NoPanic )
        => ActorAfter(i + 2 * k - 1) = commandLog[i].unit

\* Two runs and two undos of a move by (1, -1) in a release build, the first
\* run wrapping x around from the largest i32 to the smallest.
C21_Witness ==
    /\ Len(commandLog) = 4
    /\ [ j \in 1..4 |-> commandLog[j].op ] = << "run", "run", "undo", "undo" >>
    /\ commandPanic = NoPanic
    /\ commandBuild = "release"
    /\ command = [ x |-> 1, y |-> -1 ]
    /\ commandLog[1].unit.x = I32_MAX
    /\ commandLog[2].unit.x = I32_MIN
    /\ actor = commandLog[1].unit

\* --------------------------------------------------------------------- C22
\* C22: the stream is consumed strictly left to right: the cursor never moves
\* back (so no word is fetched twice), the stream is never modified, a LITERAL
\* that succeeds consumes exactly two words and every other instruction that
\* succeeds consumes exactly one.
C22_StreamIsConsumedLeftToRight ==
    /\ [](/\ last.pos <= pos
          /\ pos <= Len(bytes)
          /\ (last.kind = "execute" /\ panic = NoPanic) =>
                 pos = last.pos + (IF last.word = Some(INST_LITERAL) THEN 2 ELSE 1))
    /\ [][bytes' = bytes /\ pos <= pos']_allVars

\* PLAY_SOUND has consumed the first word, LITERAL the second and the third.
C22_Witness ==
    /\ last.kind = "execute"
    /\ last.word = Some(INST_LITERAL)
    /\ panic = NoPanic
    /\ bytes[1] = INST_PLAY_SOUND
    /\ last.pos = 1
    /\ pos = 3

\* --------------------------------------------------------------------- C23
\* C23: fixed arity: an instruction that succeeds leaves the stack with its
\* depth before, less the operands it pops, plus the values it pushes (LITERAL
\* +1, SET_<ATTR> -2, PLAY_SOUND -1, SPAWN_PARTICLES -1); what lay below the
\* popped operands is unchanged; and it succeeds only on a stack at least as
\* deep as the operands it pops.
\* The values the specification's table has each opcode push.
Pushes(w) == IF w \in { INST_LITERAL, ADD, DIVIDE } \cup GetOpcodes THEN 1 ELSE 0

C23_FixedArity ==
    (last.kind = "execute" /\ panic = NoPanic) =>
        LET w == last.word[1]
        IN  /\ Len(last.stack) >= Pops(w)
            /\ Len(stack) = Len(last.stack) - Pops(w) + Pushes(w)
            /\ SubSeq(stack, Pushes(w) + 1, Len(stack)) =
                   SubSeq(last.stack, Pops(w) + 1, Len(last.stack))

\* SET_HEALTH has popped two of three values and left the third.
C23_Witness ==
    /\ Executed(INST_SET_HEALTH)
    /\ panic = NoPanic
    /\ Len(last.stack) = 3
    /\ stack = << last.stack[3] >>

\* --------------------------------------------------------------------- C24
\* C24: the stack is last-in-first-out through push and pop: in every state
\* push(v) then pop() returns v and leaves the stack as it was before the push;
\* and after push(v1) ... push(vk) on an empty stack, k pops return vk ... v1
\* (checked with the values of every stack that is reached as v1 ... vk).
RECURSIVE PushAll(_, _)
PushAll(s, values) ==
    IF values = << >> THEN s ELSE PushAll(push(s, Head(values)), Tail(values))

\* What k pops return, in order.
RECURSIVE PopAll(_, _)
PopAll(s, k) ==
    IF k = 0 THEN << >> ELSE << pop(s).ret >> \o PopAll(pop(s).stack, k - 1)

Reversed(values) == [ i \in DOMAIN values |-> Some(values[Len(values) + 1 - i]) ]

C24_StackIsLastInFirstOut ==
    /\ [](/\ \A v \in Values :
                 /\ pop(push(stack, v)).ret = Some(v)
                 /\ pop(push(stack, v)).stack = stack
          /\ PopAll(PushAll(<< >>, stack), Len(stack)) = Reversed(stack))
    /\ [][(last.kind = "push" /\ last'.kind = "pop") =>
              /\ last'.ret = last.word
              /\ stack' = last.stack]_allVars

\* 1 was pushed, then 2, and pop has returned the 2 and left the 1.
C24_Witness ==
    /\ pc = "ready"
    /\ pos = 0
    /\ last.kind = "pop"
    /\ last.stack = << 2, 1 >>
    /\ last.ret = Some(2)
    /\ stack = << 1 >>

\* --------------------------------------------------------------------- C25
\* C25: the word after a LITERAL opcode is pushed as it is and never decoded,
\* whatever its value, an opcode's included; the next word decoded is the one
\* after that operand.
C25_OperandIsNeverDecoded ==
    /\ [](/\ last.kind = "execute" => last.word = Some(bytes[last.pos + 1])
          /\ (Executed(INST_LITERAL) /\ panic = NoPanic) =>
                 /\ stack = << bytes[last.pos + 2] >> \o last.stack
                 /\ calls = last.calls
                 /\ pos = last.pos + 2)
    /\ [][last'.kind = "execute" => last'.pos = pos]_allVars

\* SET_HEALTH's opcode stood as LITERAL's operand: it was pushed, not executed,
\* and the PLAY_SOUND after it was decoded next and played it.
C25_Witness ==
    /\ bytes = << INST_LITERAL, INST_SET_HEALTH, INST_PLAY_SOUND >>
    /\ start = << >>
    /\ Executed(INST_PLAY_SOUND)
    /\ last.pos = 2
    /\ last.stack = << INST_SET_HEALTH >>
    /\ calls = << PrintPlaySound(INST_SET_HEALTH) >>
    /\ panic = NoPanic

\* --------------------------------------------------------------------- C26
\* C26: swap exchanges the display and drawing buffers and alters neither, so
\* a swap that follows a swap, with no draw or clear in between, restores both
\* buffers, and pixels() returns what it returned before the first of the two.
C26_SwapIsAnInvolution ==
    /\ [](/\ sceneLast.op = "swap" =>
                 /\ scene.display = sceneLast.scene.drawing
                 /\ scene.drawing = sceneLast.scene.display
          /\ SceneSwap(SceneSwap(scene)) = scene)
    /\ [][(sceneLast.op = "swap" /\ sceneLast'.op = "swap") =>
              /\ scene' = sceneLast.scene
              /\ ScenePixels(scene') = ScenePixels(sceneLast.scene)]_allVars

\* Two swaps in a row on a 2 x 1 scene: the drawn pixel was on display between
\* them and is back in the drawing buffer, the blank frame is displayed again.
C26_Witness ==
    /\ sceneLast.op = "swap"
    /\ sceneLast.prior = "swap"
    /\ ScenePixels(sceneLast.scene) = << << DefaultPixel, "block" >> >>
    /\ ScenePixels(scene) = << << DefaultPixel, DefaultPixel >> >>
    /\ scene.drawing = sceneLast.scene.display

\* --------------------------------------------------------------------- C27
\* C27: activate(index) with index below active_len fails with "Already
\* active!" and changes nothing; otherwise (index being a slot of the array) the
\* particle at index changes places with the first inactive slot and active_len
\* grows by exactly one; so after any calls of activate and deactivate that
\* returned, the active particles are exactly those at positions 0 to
\* active_len - 1, and active_len is between 0 and MAX_PARTICLES.
ActivePrefix == { particles[i] : i \in 1..active_len }

C27_ActivateRejectsActive ==
    (particleLast.op = "activate" /\ particleLast.index[1] < particleLast.active_len) =>
        /\ particlePanic = AssertFailed("Already active!", 68)
        /\ active_len = particleLast.active_len
        /\ particles = particleLast.particles

C27_ActivateSwapsAndGrows ==
    ( /\ particleLast.op = "activate"
      /\ particleLast.index[1] >= particleLast.active_len
      /\ particleLast.index[1] < MAX_PARTICLES ) =>
        /\ particlePanic = NoPanic
        /\ active_len = particleLast.active_len + 1
        /\ particles = swap(particleLast.particles, particleLast.index[1],
                            particleLast.active_len, 71).slice

C27_ActiveLenInRange ==
    particlePanic = NoPanic => (0 <= active_len /\ active_len <= MAX_PARTICLES)

C27_ActiveParticlesAreThePrefix ==
    /\ C27_ActivateRejectsActive
    /\ C27_ActivateSwapsAndGrows
    /\ C27_ActiveLenInRange
    /\ particlePanic = NoPanic => ActivePrefix = activated

\* Particle 0 was activated and deactivate was never called on it, yet after
\* deactivate(1) returned it lies outside the active positions.
C27_Witness ==
    /\ particleLast.op = "deactivate"
    /\ particlePanic = NoPanic
    /\ activated = { 0 }
    /\ active_len = 0
    /\ ActivePrefix = { }

\* --------------------------------------------------------------------- C28
\* C28: a failing instruction consumes no operand: when an instruction fails
\* for lack of operands, the stack is what it was before the instruction was
\* fetched.
C28_FailingInstructionConsumesNothing ==
    (last.kind = "execute" /\ panic \in StackUnderflow) => stack = last.stack

\* C28, as the code has it: an instruction that fails for lack of operands
\* leaves the stack as it was, except SET_<ATTR> on a stack of depth 1, which
\* has popped that one value (the amount) when it fails for lack of the second.
\* In every case it issues no call.
C28_FailingSetHasPoppedItsFirstOperand ==
    (last.kind = "execute" /\ panic \in StackUnderflow) =>
        /\ Len(last.stack) < Pops(last.word[1])
        /\ stack = IF last.word[1] \in SetOpcodes /\ Len(last.stack) = 1
                   THEN Tail(last.stack)
                   ELSE last.stack
        /\ calls = last.calls

\* SET_HEALTH ran on the stack [1] and failed, and the stack is empty.
C28_Witness ==
    /\ Executed(INST_SET_HEALTH)
    /\ panic = UnwrapNone(62)
    /\ last.stack = << 1 >>
    /\ stack = << >>

\* --------------------------------------------------------------------- C29
\* C29: after any calls of play and update, pending is at most MAX and slots
\* 0 to pending - 1 of the buffer hold the messages played since the last
\* update, in the order played; play on a full queue fails its assertion and
\* leaves the queue as it was; update leaves pending at 0.
C29_PendingSlotsHoldThePlayedMessages ==
    /\ pending <= MAX
    /\ Len(played) = pending
    /\ \A i \in 1..pending : buffer[i] = Some(played[i])
    /\ (audioLast.op = "play" /\ audioLast.pending = MAX) =>
           /\ audioPanic = AssertFailed("assertion failed: self.pending < MAX", 46)
           /\ buffer = audioLast.buffer
           /\ pending = audioLast.pending
    /\ audioLast.op = "update" => pending = 0

\* A queue filled, updated and played on once more: slot 0 holds the new
\* message, slot 1 still the old one, and one message is pending.
C29_Witness ==
    /\ audioLast.op = "play"
    /\ pending = 1
    /\ played = << PlayMessage("SoundId", "0.3") >>
    /\ buffer = << Some(PlayMessage("SoundId", "0.3")), Some(PlayMessage("SoundId", "0.2")) >>

====
